---- MODULE Spec2Model ----
(***************************************************************************)
(* Model of tests/integration_tests/performance/test_mmds_vsock.py:        *)
(* test_20vms_mmds_vsock configures and starts NO_OF_MICROVMS instances,   *)
(* then runs rounds of {vsock echo check for every instance, MMDS PATCH    *)
(* for every instance} inside try / except Exception / finally, and in the *)
(* finally block prints every instance's log, closes the guest             *)
(* connections and kills every instance.                                   *)
(*                                                                         *)
(* The program is sequential: pc is the position of the single thread of   *)
(* control.  Every call into the framework (configure, copy, connect,      *)
(* transfer, patch, log_data, close_guest_connections, kill) may return    *)
(* normally or raise; the outcome is an input drawn with \E.               *)
(***************************************************************************)
EXTENDS Integers, Sequences, FiniteSets, TLC

\* Number of instances: NO_OF_MICROVMS = 20 in the source, scaled down.
NO_OF_MICROVMS == 3
\* Number of rounds: range(1000) in the source, scaled down.
NO_OF_ROUNDS == 2

Instances == 0 .. (NO_OF_MICROVMS - 1)
Rounds == 0 .. (NO_OF_ROUNDS - 1)

\* The two directions of a vsock connection.
Directions == {"guest", "host"}

\* The connection checks _run_vsock performs, in order: the guest-initiated
\* check is called, the host-initiated one is commented out.
VsockChecks_BothDirections == <<"guest", "host">>
VsockChecks_Twice == <<"guest", "guest">>
VsockChecks == <<"guest">>

TestedDirections == {VsockChecks[n] : n \in 1 .. Len(VsockChecks)}

\* Ways a call can end: normal return, an exception derived from Exception,
\* or one that is not (KeyboardInterrupt, SystemExit: an interruption).
Raises == {"Exception", "BaseException"}
CallOutcomes == {"ok"} \cup Raises
\* An API request can also come back with an error status without raising.
PatchOutcomes == {"ok", "rejected"} \cup Raises
\* Bringing up one instance: everything fine, _configure_and_run raises
\* before start(), or SSHConnection raises after the instance was started.
SetupOutcomes == {"ok", "configure_raises", "ssh_raises"}

(***************************************************************************)
(* The metadata store (MMDS): a tree of scalars and mappings.              *)
(***************************************************************************)

\* "mmds-size-limit": "51200" and "http-api-max-payload-size": "512000",
\* the extra arguments _configure_and_run gives the jailer.
HTTP_API_MAX_PAYLOAD_SIZE == 512000
MMDS_SIZE_LIMIT == 51200
\* aux = "a" * 1000 in _patch_mmds.
AuxLen == 1000
\* for i in range(0, 5): the scratch drives _configure_and_run attaches.
NumDrives == 5

Keys == {"latest", "meta-data", "ami-id", "secret_key"}
KeyLen(k) ==
    CASE k = "latest" -> 6
      [] k = "meta-data" -> 9
      [] k = "ami-id" -> 6
      [] k = "secret_key" -> 10

\* Scalar values: the strings of the source, and two large ones that bring
\* a store to the size limit and beyond it.
Values == {"dummy", "smth", "aux", "fill", "big"}
ValueLen(v) ==
    CASE v = "dummy" -> 5
      [] v = "smth" -> 4
      [] v = "aux" -> AuxLen
      [] v = "fill" -> 51150
      [] v = "big" -> 60000

Scalar(v) == [tag |-> "s", v |-> v]
Mapping(kv) == [tag |-> "m", kv |-> kv]
EmptyStore == Mapping(<<>>)

\* dummy_json of _configure_and_run: the seed of the data store.
SeedJson ==
    Mapping("latest" :> Mapping("meta-data" :> Mapping("ami-id" :> Scalar("dummy"))))

\* dummy_json of _patch_mmds: the payload of every PATCH.
PatchJson_NoSecret ==
    Mapping("latest" :> Mapping("meta-data" :> Mapping("ami-id" :> Scalar("smth"))))
PatchJson ==
    Mapping("latest" :> Mapping("meta-data" :>
        Mapping("ami-id" :> Scalar("smth") @@ "secret_key" :> Scalar("aux"))))

RECURSIVE SumOver(_, _)
\* The sum of f[k] over the keys k of the set ks.
SumOver(f, ks) ==
    IF ks = {} THEN 0
    ELSE LET k == CHOOSE x \in ks : TRUE
         IN  f[k] + SumOver(f, ks \ {k})

RECURSIVE Size(_)
\* The length of the compact JSON serialization of a tree: a quoted string,
\* or {"key":value,...}.
Size(t) ==
    IF t.tag = "s" THEN ValueLen(t.v) + 2
    ELSE LET ks == DOMAIN t.kv
             n == Cardinality(ks)
             each == [k \in ks |-> KeyLen(k) + 3 + Size(t.kv[k])]
         IN  2 + SumOver(each, ks) + (IF n > 0 THEN n - 1 ELSE 0)

RECURSIVE Merge_Shallow(_, _)
\* A merge that replaces whole top-level entries instead of descending.
Merge_Shallow(s, p) ==
    IF s.tag = "m" /\ p.tag = "m"
       THEN Mapping([k \in DOMAIN s.kv \cup DOMAIN p.kv |->
                IF k \in DOMAIN p.kv THEN p.kv[k] ELSE s.kv[k]])
       ELSE p

RECURSIVE Merge(_, _)
\* The recursive merge of patch p into store s: keys of p are added or
\* overwritten, mappings are merged key by key, keys absent from p stay.
Merge(s, p) ==
    IF s.tag = "m" /\ p.tag = "m"
       THEN Mapping([k \in DOMAIN s.kv \cup DOMAIN p.kv |->
                IF k \in DOMAIN p.kv
                   THEN IF k \in DOMAIN s.kv THEN Merge(s.kv[k], p.kv[k])
                                             ELSE p.kv[k]
                   ELSE s.kv[k]])
       ELSE p

\* PUT: replaces the whole store, unless the new store exceeds the size limit.
MmdsPut(s, t) ==
    IF Size(t) > MMDS_SIZE_LIMIT
       THEN [resp |-> "PayloadTooLarge", store |-> s]
       ELSE [resp |-> "ok", store |-> t]

\* PATCH that checks the size of the payload, not of the resulting store.
MmdsPatch_ChecksPayloadOnly(s, p) ==
    IF Size(p) > MMDS_SIZE_LIMIT
       THEN [resp |-> "PayloadTooLarge", store |-> s]
       ELSE [resp |-> "ok", store |-> Merge(s, p)]

\* PATCH: merges the payload into the store, unless the resulting store
\* exceeds the size limit; then the store is left as it was.
MmdsPatch(s, p) ==
    IF Size(Merge(s, p)) > MMDS_SIZE_LIMIT
       THEN [resp |-> "PayloadTooLarge", store |-> s]
       ELSE [resp |-> "ok", store |-> Merge(s, p)]

\* The steps of _configure_and_run before start(), in the order of the source.
ConfigSteps ==
    <<"spawn", "logger", "console_logger", "basic_config", "network", "vsock",
      "configure_mmds", "seed_mmds">> \o [n \in 1 .. NumDrives |-> "drive"]
\* The API requests whose response the function gets back ...
ResponseSteps == {"logger", "vsock", "seed_mmds"}
\* ... and those among them whose status it asserts to be no-content.
AssertedSteps == {"logger", "seed_mmds"}
StepOutcomes(step) ==
    IF step \in ResponseSteps THEN {"ok", "rejected", "raises"}
                              ELSE {"ok", "raises"}

VARIABLES
    pc,             \* position of the test function
    i,              \* instance loop index
    j,              \* round loop index
    c,              \* index into VsockChecks of the check in progress
    started,        \* started[k]: microvm k was started
    ssh_conns,      \* the list ssh_conns (instance index per entry)
    echo,           \* echo[k][r]: result of _run_vsock for instance k, round r
    patch,          \* patch[k][r]: result of _patch_mmds for instance k, round r
    opened,         \* opened[k][r][d]: connections opened for k in round r, direction d
    conns,          \* connections currently open
    raised,         \* every exception raised by a check inside the try block
    exc,            \* the exception the except clause is handling
    pending,        \* the exception that will propagate out of the function
    printed,        \* what the except clause printed
    logged,         \* logged[k]: times the log of instance k was printed
    killed,         \* killed[k]: times kill() was called on instance k
    close_calls,    \* times close_guest_connections() was called
    cleanup_errors, \* exceptions raised by steps of the finally block
    outcome,        \* "running", "passed" or "failed"
    cfg,            \* steps of the _configure_and_run call in progress that returned
    store,          \* store[k]: the metadata store of instance k
    ms,             \* one metadata store, taken through arbitrary requests
    mprev,          \* ... the store before the last request
    mreq,           \* ... the last request
    mresp,          \* ... and its response
    tstate,         \* metadata client: "Unauthenticated" or "Authenticated"
    tissued,        \* ... when its token was issued
    tttl,           \* ... the time-to-live of its token, in seconds
    now,            \* ... the clock, in seconds
    treq,           \* ... the last request, with the client's state when it was made
    tresp,          \* ... and its response
    epc,            \* echo check of one blob: "idle", "made", "copied", "checked"
    blob,           \* ... the blob make_blob generated
    blob_hash,      \* ... the hash make_blob returned with it
    vm_blob,        \* ... the copy of the blob in the guest
    resp,           \* ... the bytes that came back through the channel
    verdict         \* ... the result of the check

\* The variables of the single-store view of the metadata service.
mmdsVars == <<ms, mprev, mreq, mresp>>
\* The variables the test function does not touch.
\* The variables of the metadata client and its token.
tokenVars == <<tstate, tissued, tttl, now, treq, tresp>>
\* The variables of the echo check of one blob.
echoVars == <<epc, blob, blob_hash, vm_blob, resp, verdict>>
sideVars == <<mmdsVars, tokenVars, echoVars>>

\* The variables of the test function.
orchVars == <<pc, i, j, c, started, ssh_conns, echo, patch, opened, conns,
              raised, exc, pending, printed, logged, killed, close_calls,
              cleanup_errors, outcome, cfg, store>>

vars == <<pc, i, j, c, started, ssh_conns, echo, patch, opened, conns, raised,
          exc, pending, printed, logged, killed, close_calls, cleanup_errors,
          outcome, cfg, store, sideVars>>

Init ==
    /\ pc = "setup"
    /\ i = 0
    /\ j = 0
    /\ c = 1
    /\ started = [k \in Instances |-> FALSE]
    /\ ssh_conns = <<>>
    /\ echo = [k \in Instances |-> [r \in Rounds |-> "none"]]
    /\ patch = [k \in Instances |-> [r \in Rounds |-> "none"]]
    /\ opened = [k \in Instances |-> [r \in Rounds |-> [d \in Directions |-> 0]]]
    /\ conns = {}
    /\ raised = {}
    /\ exc = {}
    /\ pending = {}
    /\ printed = <<>>
    /\ logged = [k \in Instances |-> 0]
    /\ killed = [k \in Instances |-> 0]
    /\ close_calls = 0
    /\ cleanup_errors = {}
    /\ outcome = "running"
    /\ cfg = <<>>
    /\ store = [k \in Instances |-> EmptyStore]
    /\ ms = EmptyStore
    /\ mprev = EmptyStore
    /\ mreq = [op |-> "none", payload |-> EmptyStore]
    /\ mresp = "none"
    /\ tstate = "Unauthenticated"
    /\ tissued = 0
    /\ tttl = 0
    /\ now = 0
    /\ treq = [op |-> "none", ttl |-> 0, at |-> 0, state |-> "Unauthenticated",
               issued |-> 0, token_ttl |-> 0]
    /\ tresp = "none"
    /\ epc = "idle"
    /\ blob = <<>>
    /\ blob_hash = 0
    /\ vm_blob = <<>>
    /\ resp = <<>>
    /\ verdict = "none"

\* The exception a check of instance i in round j raises.
Failure(op, kind) == [inst |-> i, round |-> j, op |-> op, kind |-> kind]

\* for i in range(NO_OF_MICROVMS): the loop body ran for idx, is the loop over?
SetupLoopDone(idx) == idx + 1 >= NO_OF_MICROVMS
EchoLoopDone_SkipsLast(idx) == idx + 1 >= NO_OF_MICROVMS - 1
EchoLoopDone(idx) == idx + 1 >= NO_OF_MICROVMS
PatchLoopDone_SkipsLast(idx) == idx + 1 >= NO_OF_MICROVMS - 1
PatchLoopDone(idx) == idx + 1 >= NO_OF_MICROVMS
LogLoopDone_SkipsLast(idx) == idx + 1 >= NO_OF_MICROVMS - 1
LogLoopDone(idx) == idx + 1 >= NO_OF_MICROVMS
KillLoopDone(idx) == idx + 1 >= NO_OF_MICROVMS
\* for j in range(1000): the loop body ran for round rnd, is the loop over?
RoundLoopDone(rnd) == rnd + 1 >= NO_OF_ROUNDS

\* An exception raised inside the try block.  except Exception catches an
\* Exception; anything else skips the except clause, runs the finally block
\* and propagates afterwards.
RaiseInTry(f) ==
    /\ raised' = raised \cup {f}
    /\ IF f.kind = "Exception"
          THEN /\ pc' = "except"
               /\ exc' = {f}
               /\ UNCHANGED <<i, pending>>
          ELSE /\ pc' = "log"
               /\ i' = 0
               /\ pending' = {f}
               /\ UNCHANGED exc

\* An exception raised by a step of the finally block: nothing catches it,
\* it replaces any pending exception and leaves the function at once.
RaiseInFinally(step, kind) ==
    /\ cleanup_errors' = cleanup_errors \cup {[inst |-> i, step |-> step]}
    /\ pending' = {[inst |-> i, round |-> j, op |-> step, kind |-> kind]}
    /\ pc' = "done"
    /\ outcome' = "failed"

\* What a step of _configure_and_run leaves in cfg when it returns: a request
\* answered with an error status is noted as such.
StepDone(step, o) == IF o = "ok" THEN step ELSE "rejected"

\* Does _configure_and_run go on after the step ended with outcome o?  It
\* stops when the call raises, or when the asserted status is not no-content.
StepPasses(step, o) == o = "ok" \/ (o = "rejected" /\ step \notin AssertedSteps)

\* _configure_and_run(microvms[i]), one step before start(): spawn, logger,
\* console logger, machine config, network, vsock, MMDS config, the seed PUT
\* of the data store, the five drives.  A failing step raises out of the test
\* function (the setup loop is outside the try block).
ConfigureStep ==
    /\ pc = "setup"
    /\ Len(cfg) < Len(ConfigSteps)
    /\ LET step == ConfigSteps[Len(cfg) + 1]
       IN  \E o \in StepOutcomes(step) :
             IF StepPasses(step, o)
                THEN /\ cfg' = Append(cfg, StepDone(step, o))
                     /\ store' = IF step = "seed_mmds"
                                    THEN [store EXCEPT ![i] = MmdsPut(@, SeedJson).store]
                                    ELSE store
                     /\ UNCHANGED <<pc, pending, outcome>>
                ELSE /\ pending' = {[inst |-> i, round |-> 0, op |-> step, kind |-> "Exception"]}
                     /\ pc' = "done"
                     /\ outcome' = "failed"
                     /\ UNCHANGED <<cfg, store>>
    /\ UNCHANGED <<i, j, c, started, ssh_conns, echo, patch, opened, conns,
                   raised, exc, printed, logged, killed, close_calls,
                   cleanup_errors, sideVars>>

\* The setup loop, outside the try block: the end of
\* _configure_and_run(microvms[i]), test_microvm.start(), then
\* ssh_conns.append(SSHConnection(...)).  An exception here propagates
\* out of the test function at once.
ConfigureAndRun ==
    /\ pc = "setup"
    /\ Len(cfg) = Len(ConfigSteps)
    /\ \E o \in SetupOutcomes :
        IF o = "ok"
           THEN /\ started' = [started EXCEPT ![i] = TRUE]
                /\ ssh_conns' = Append(ssh_conns, i)
                /\ IF SetupLoopDone(i)
                      THEN /\ i' = 0
                           /\ pc' = "echo"
                      ELSE /\ i' = i + 1
                           /\ pc' = "setup"
                /\ cfg' = <<>>
                /\ UNCHANGED <<pending, outcome>>
           ELSE /\ started' = [started EXCEPT ![i] = (o = "ssh_raises")]
                /\ pending' = {[inst |-> i, round |-> 0, op |-> o, kind |-> "Exception"]}
                /\ pc' = "done"
                /\ outcome' = "failed"
                /\ UNCHANGED <<i, ssh_conns, cfg>>
    /\ UNCHANGED <<j, c, echo, patch, opened, conns, raised, exc, printed,
                   logged, killed, close_calls, cleanup_errors>>
    /\ UNCHANGED <<store, sideVars>>

\* _run_vsock, first part: make_blob and _copy_vsock_data_to_guest.
MakeBlobAndCopy ==
    /\ pc = "echo"
    /\ \E o \in CallOutcomes :
        IF o = "ok"
           THEN /\ pc' = "connect"
                /\ c' = 1
                /\ UNCHANGED <<i, echo, raised, exc, pending>>
           ELSE /\ echo' = [echo EXCEPT ![i][j] = "fail"]
                /\ RaiseInTry(Failure("copy", o))
                /\ UNCHANGED c
    /\ UNCHANGED <<j, started, ssh_conns, patch, opened, conns, printed,
                   logged, killed, close_calls, cleanup_errors, outcome>>
    /\ UNCHANGED <<cfg, store, sideVars>>

\* The echo verifier opens one connection in direction d for the instance.
OpenConnection(d) ==
    /\ opened' = [opened EXCEPT ![i][j][d] = @ + 1]
    /\ conns' = conns \cup {[inst |-> i, round |-> j, dir |-> d, n |-> opened[i][j][d] + 1]}

\* The echo verifier closes the connections it opened for the instance,
\* whether the transfer succeeded or not.
CloseConnection == conns' = {cn \in conns : cn.inst # i}

\* What _run_vsock does when check number c has returned: the next check of
\* VsockChecks, or return to the echo loop of the round.
AfterCheck ==
    IF c < Len(VsockChecks)
       THEN /\ c' = c + 1
            /\ pc' = "connect"
            /\ UNCHANGED <<i, echo>>
       ELSE /\ c' = 1
            /\ echo' = [echo EXCEPT ![i][j] = "ok"]
            /\ IF EchoLoopDone(i)
                  THEN /\ i' = 0
                       /\ pc' = "patch"
                  ELSE /\ i' = i + 1
                       /\ pc' = "echo"

\* _run_vsock, check number c of VsockChecks: the connection is established
\* (or the attempt times out with a ConnectionError).
Connect ==
    /\ pc = "connect"
    /\ \E o \in CallOutcomes :
        IF o = "ok"
           THEN /\ OpenConnection(VsockChecks[c])
                /\ pc' = "transfer"
                /\ UNCHANGED <<i, c, echo, raised, exc, pending>>
           ELSE /\ echo' = [echo EXCEPT ![i][j] = "fail"]
                /\ RaiseInTry(Failure("connect", o))
                /\ UNCHANGED <<c, opened, conns>>
    /\ UNCHANGED <<j, started, ssh_conns, patch, printed, logged, killed,
                   close_calls, cleanup_errors, outcome>>
    /\ UNCHANGED <<cfg, store, sideVars>>

\* _run_vsock, check number c of VsockChecks: the blob is sent, echoed back
\* and its hash compared; the connection is closed.
Transfer ==
    /\ pc = "transfer"
    /\ CloseConnection
    /\ \E o \in CallOutcomes :
        IF o = "ok"
           THEN /\ AfterCheck
                /\ UNCHANGED <<raised, exc, pending>>
           ELSE /\ echo' = [echo EXCEPT ![i][j] = "fail"]
                /\ RaiseInTry(Failure("transfer", o))
                /\ UNCHANGED c
    /\ UNCHANGED <<j, started, ssh_conns, patch, opened, printed, logged,
                   killed, close_calls, cleanup_errors, outcome>>
    /\ UNCHANGED <<cfg, store, sideVars>>

\* The instance the PATCH loop addresses for index idx: microvms[i].
PatchTarget_Next(idx) == (idx + 1) % NO_OF_MICROVMS
PatchTarget(idx) == idx

\* _patch_mmds(microvms[i]): the response of mmds.patch is not looked at, so
\* a request answered with an error status returns like a successful one.
\* A request that raised may or may not have reached the store.
PatchMmds ==
    /\ pc = "patch"
    /\ \E o \in PatchOutcomes :
        IF o \in {"ok", "rejected"}
           THEN /\ patch' = [patch EXCEPT ![i][j] = o]
                /\ store' = IF o = "ok"
                               THEN [store EXCEPT ![PatchTarget(i)] = MmdsPatch(@, PatchJson).store]
                               ELSE store
                /\ IF ~PatchLoopDone(i)
                      THEN /\ i' = i + 1
                           /\ pc' = "patch"
                           /\ j' = j
                      ELSE /\ i' = 0
                           /\ IF RoundLoopDone(j)
                                 THEN /\ pc' = "log"
                                      /\ j' = j
                                 ELSE /\ pc' = "echo"
                                      /\ j' = j + 1
                /\ UNCHANGED <<raised, exc, pending>>
           ELSE /\ patch' = [patch EXCEPT ![i][j] = "fail"]
                /\ \E applied \in BOOLEAN :
                      store' = IF applied
                                  THEN [store EXCEPT ![PatchTarget(i)] = MmdsPatch(@, PatchJson).store]
                                  ELSE store
                /\ RaiseInTry(Failure("patch", o))
                /\ j' = j
    /\ UNCHANGED <<c, started, ssh_conns, echo, opened, conns, printed,
                   logged, killed, close_calls, cleanup_errors, outcome>>
    /\ UNCHANGED <<cfg, sideVars>>

\* except Exception as e: print the exception and the traceback, then fall
\* through to the finally block.
ExceptHandler_Silent ==
    /\ pc = "except"
    /\ exc' = {}
    /\ pc' = "log"
    /\ i' = 0
    /\ UNCHANGED <<j, c, started, ssh_conns, echo, patch, opened, conns,
                   raised, pending, printed, logged, killed, close_calls,
                   cleanup_errors, outcome>>
    /\ UNCHANGED <<cfg, store, sideVars>>

ExceptHandler_Resumes ==
    /\ pc = "except"
    /\ printed' = printed \o <<CHOOSE f \in exc : TRUE>>
    /\ exc' = {}
    /\ pc' = "patch"
    /\ UNCHANGED <<i, j, c, started, ssh_conns, echo, patch, opened, conns,
                   raised, pending, logged, killed, close_calls,
                   cleanup_errors, outcome>>
    /\ UNCHANGED <<cfg, store, sideVars>>

ExceptHandler ==
    /\ pc = "except"
    /\ printed' = printed \o <<CHOOSE f \in exc : TRUE>>
    /\ exc' = {}
    /\ pc' = "log"
    /\ i' = 0
    /\ UNCHANGED <<j, c, started, ssh_conns, echo, patch, opened, conns,
                   raised, pending, logged, killed, close_calls,
                   cleanup_errors, outcome>>
    /\ UNCHANGED <<cfg, store, sideVars>>

\* finally, first loop: print(str(microvms[i].log_data)).
PrintLog ==
    /\ pc = "log"
    /\ \E o \in CallOutcomes :
        IF o = "ok"
           THEN /\ logged' = [logged EXCEPT ![i] = @ + 1]
                /\ IF LogLoopDone(i)
                      THEN /\ i' = 0
                           /\ pc' = "close"
                      ELSE /\ i' = i + 1
                           /\ pc' = "log"
                /\ UNCHANGED <<pending, cleanup_errors, outcome>>
           ELSE /\ RaiseInFinally("log", o)
                /\ UNCHANGED <<i, logged>>
    /\ UNCHANGED <<j, c, started, ssh_conns, echo, patch, opened, conns,
                   raised, exc, printed, killed, close_calls>>
    /\ UNCHANGED <<cfg, store, sideVars>>

\* finally: close_guest_connections().
CloseGuestConnections ==
    /\ pc = "close"
    /\ close_calls' = close_calls + 1
    /\ \E o \in CallOutcomes :
        IF o = "ok"
           THEN /\ conns' = {}
                /\ pc' = "kill"
                /\ UNCHANGED <<pending, cleanup_errors, outcome>>
           ELSE /\ RaiseInFinally("close", o)
                /\ UNCHANGED conns
    /\ UNCHANGED <<i, j, c, started, ssh_conns, echo, patch, opened, raised,
                   exc, printed, logged, killed>>
    /\ UNCHANGED <<cfg, store, sideVars>>

\* finally, second loop: microvms[i].kill().  After the last one the pending
\* exception, if any, propagates; otherwise the function goes on.
Kill ==
    /\ pc = "kill"
    /\ killed' = [killed EXCEPT ![i] = @ + 1]
    /\ \E o \in CallOutcomes :
        IF o = "ok"
           THEN /\ IF ~KillLoopDone(i)
                      THEN /\ i' = i + 1
                           /\ pc' = "kill"
                           /\ outcome' = outcome
                      ELSE /\ i' = 0
                           /\ pc' = IF pending = {} THEN "end" ELSE "done"
                           /\ outcome' = IF pending = {} THEN outcome ELSE "failed"
                /\ UNCHANGED <<pending, cleanup_errors>>
           ELSE /\ RaiseInFinally("kill", o)
                /\ UNCHANGED i
    /\ UNCHANGED <<j, c, started, ssh_conns, echo, patch, opened, conns,
                   raised, exc, printed, logged, close_calls>>
    /\ UNCHANGED <<cfg, store, sideVars>>

\* print("====The End====") and the test function returns: the test passes.
TheEnd ==
    /\ pc = "end"
    /\ pc' = "done"
    /\ outcome' = "passed"
    /\ UNCHANGED <<i, j, c, started, ssh_conns, echo, patch, opened, conns,
                   raised, exc, pending, printed, logged, killed, close_calls,
                   cleanup_errors>>
    /\ UNCHANGED <<cfg, store, sideVars>>

Next ==
    \/ ConfigureStep
    \/ ConfigureAndRun
    \/ MakeBlobAndCopy
    \/ Connect
    \/ Transfer
    \/ PatchMmds
    \/ ExceptHandler
    \/ PrintLog
    \/ CloseGuestConnections
    \/ Kill
    \/ TheEnd

Spec == Init /\ [][Next]_vars

(***************************************************************************)
(* The metadata service seen on one store: any sequence of PUT and PATCH   *)
(* requests, with payloads from the source and payloads around the size    *)
(* limit.                                                                  *)
(***************************************************************************)

\* The store the seed PUT followed by the PATCH of _patch_mmds leaves.
ExpectedStore ==
    Mapping("latest" :> Mapping("meta-data" :>
        Mapping("ami-id" :> Scalar("smth") @@ "secret_key" :> Scalar("aux"))))

\* Request payloads: those of the source, payloads that replace a mapping by
\* a scalar, one that fits the limit alone but not merged, one beyond it.
Payloads ==
    { SeedJson,
      PatchJson,
      Mapping("latest" :> Scalar("dummy")),
      Mapping("latest" :> Mapping("meta-data" :> Scalar("smth"))),
      Mapping("ami-id" :> Scalar("dummy")),
      Mapping("latest" :> Mapping("ami-id" :> Scalar("fill"))),
      Mapping("latest" :> Mapping("meta-data" :> Mapping("secret_key" :> Scalar("big")))) }

MmdsDoPut ==
    /\ \E t \in Payloads :
        LET r == MmdsPut(ms, t)
        IN  /\ ms' = r.store
            /\ mprev' = ms
            /\ mreq' = [op |-> "put", payload |-> t]
            /\ mresp' = r.resp
    /\ UNCHANGED <<orchVars, tokenVars, echoVars>>

MmdsDoPatch ==
    /\ \E t \in Payloads :
        LET r == MmdsPatch(ms, t)
        IN  /\ ms' = r.store
            /\ mprev' = ms
            /\ mreq' = [op |-> "patch", payload |-> t]
            /\ mresp' = r.resp
    /\ UNCHANGED <<orchVars, tokenVars, echoVars>>

MmdsNext ==
    \/ MmdsDoPut
    \/ MmdsDoPatch

SpecMmds == Init /\ [][MmdsNext]_vars

(***************************************************************************)
(* The metadata client and its session token.                              *)
(***************************************************************************)

\* Minimum and maximum lifetime of a token, in seconds.
MIN_TOKEN_TTL_SECONDS_Zero == 1 - 1
MIN_TOKEN_TTL_SECONDS == 1
MAX_TOKEN_TTL_SECONDS == 21600

\* Longest wait, in seconds, looked at after time 0 and after the maximum
\* lifetime.
MaxWait == 3
\* Lifetimes a client asks for: around both ends of the range.
TtlInputs == {0, 1, 2, 21600, 21601}
\* The instants at which the client does something.
Instants ==
    (0 .. MaxWait) \cup
    (MAX_TOKEN_TTL_SECONDS - 1 .. MAX_TOKEN_TTL_SECONDS + MaxWait)
ProtectedOps == {"put", "patch", "get"}

\* request_token accepts a lifetime inside the range only.
TtlValid(ttl) == ttl >= MIN_TOKEN_TTL_SECONDS /\ ttl <= MAX_TOKEN_TTL_SECONDS

\* A token is valid until its lifetime has elapsed since issuance.
TokenValid_Inclusive == tstate = "Authenticated" /\ now - tissued <= tttl
TokenValid == tstate = "Authenticated" /\ now - tissued < tttl

\* The request as it is made: the operation, and the client as it is now.
Request(op, ttl) ==
    [op |-> op, ttl |-> ttl, at |-> now, state |-> tstate,
     issued |-> tissued, token_ttl |-> tttl]

\* Unauthenticated -> request_token(ttl) -> Authenticated(token, expiry), or
\* InvalidTTL and still Unauthenticated.
RequestToken ==
    /\ tstate = "Unauthenticated"
    /\ \E ttl \in TtlInputs :
        /\ treq' = Request("request_token", ttl)
        /\ IF TtlValid(ttl)
              THEN /\ tstate' = "Authenticated"
                   /\ tissued' = now
                   /\ tttl' = ttl
                   /\ tresp' = "token"
              ELSE /\ tresp' = "InvalidTTL"
                   /\ UNCHANGED <<tstate, tissued, tttl>>
    /\ UNCHANGED <<now, orchVars, mmdsVars, echoVars>>

\* PUT, PATCH or GET with the current token: served while the token is valid,
\* TokenExpired afterwards; without a token the request is not served.
ProtectedOperation ==
    /\ \E op \in ProtectedOps :
        /\ treq' = Request(op, 0)
        /\ tresp' = IF TokenValid THEN "ok"
                    ELSE IF tstate = "Authenticated" THEN "TokenExpired"
                    ELSE "Unauthorized"
    /\ UNCHANGED <<tstate, tissued, tttl, now, orchVars, mmdsVars, echoVars>>

\* The client drops its token and is Unauthenticated again.
Reenter ==
    /\ tstate = "Authenticated"
    /\ tstate' = "Unauthenticated"
    /\ UNCHANGED <<tissued, tttl, now, treq, tresp, orchVars, mmdsVars, echoVars>>

\* Time passes, up to the next instant at which the client does something.
Tick ==
    /\ \E t \in Instants :
        /\ t > now
        /\ now' = t
    /\ UNCHANGED <<tstate, tissued, tttl, treq, tresp, orchVars, mmdsVars, echoVars>>

TokenNext ==
    \/ RequestToken
    \/ ProtectedOperation
    \/ Reenter
    \/ Tick

SpecToken == Init /\ [][TokenNext]_vars

(***************************************************************************)
(* The echo check of one blob: make_blob, copy to the guest, send it       *)
(* through the channel and compare the hash of what comes back.            *)
(***************************************************************************)

\* Largest byte value and longest blob looked at.
MaxByte == 2
MaxBlobLen == 2

Bytes == 0 .. MaxByte
RECURSIVE SeqsOfLen(_)
SeqsOfLen(n) ==
    IF n = 0 THEN {<<>>}
    ELSE {<<b>> \o q : b \in Bytes, q \in SeqsOfLen(n - 1)}
Blobs == UNION {SeqsOfLen(n) : n \in 1 .. MaxBlobLen}
\* What can come back: anything, shorter, longer, equal or corrupted.
Responses == UNION {SeqsOfLen(n) : n \in 0 .. MaxBlobLen + 1}

RECURSIVE ByteSum(_)
ByteSum(b) == IF b = <<>> THEN 0 ELSE Head(b) + ByteSum(Tail(b))
\* The content hash: a digest of fixed size, here the sum of the bytes
\* modulo the number of byte values.
Hash(b) == ByteSum(b) % (MaxByte + 1)

\* The echo verifier reads back a response of the blob's length and compares
\* its hash with the hash committed at generation.
Verify_LengthOnly(h, n, r) == IF Len(r) = n THEN "ok" ELSE "IntegrityError"
Verify(h, n, r) ==
    IF Len(r) = n /\ Hash(r) = h THEN "ok" ELSE "IntegrityError"

\* blob_path, blob_hash = make_blob(test_fc_session_root_path)
EchoMakeBlob ==
    /\ epc = "idle"
    /\ \E b \in Blobs :
        /\ blob' = b
        /\ blob_hash' = Hash(b)
    /\ epc' = "made"
    /\ UNCHANGED <<vm_blob, resp, verdict, orchVars, mmdsVars, tokenVars>>

\* _copy_vsock_data_to_guest(ssh_connection, blob_path, vm_blob_path, ...)
EchoCopy ==
    /\ epc = "made"
    /\ vm_blob' = blob
    /\ epc' = "copied"
    /\ UNCHANGED <<blob, blob_hash, resp, verdict, orchVars, mmdsVars, tokenVars>>

\* check_guest_connections(vm, path, vm_blob_path, blob_hash, i): the guest
\* sends its copy, some response comes back, and it is verified against the
\* hash make_blob returned.
EchoCheck ==
    /\ epc = "copied"
    /\ \E r \in Responses :
        /\ resp' = r
        /\ verdict' = Verify(blob_hash, Len(vm_blob), r)
    /\ epc' = "checked"
    /\ UNCHANGED <<blob, blob_hash, vm_blob, orchVars, mmdsVars, tokenVars>>

\* The next round generates a new blob.
EchoAgain ==
    /\ epc = "checked"
    /\ verdict = "ok"
    /\ epc' = "idle"
    /\ UNCHANGED <<blob, blob_hash, vm_blob, resp, verdict, orchVars, mmdsVars,
                   tokenVars>>

EchoNext ==
    \/ EchoMakeBlob
    \/ EchoCopy
    \/ EchoCheck
    \/ EchoAgain

SpecEcho == Init /\ [][EchoNext]_vars

(***************************************************************************)
(* Properties.                                                             *)
(***************************************************************************)

\* Position of a check in program order: round r runs the echo checks of
\* instances 0..N-1, then their PATCHes.
EchoPos(k, r) == r * 2 * NO_OF_MICROVMS + k
PatchPos(k, r) == r * 2 * NO_OF_MICROVMS + NO_OF_MICROVMS + k
FailPos(f) == IF f.op = "patch" THEN PatchPos(f.inst, f.round)
                                ELSE EchoPos(f.inst, f.round)

\* The try block was entered: the setup loop finished for every instance.
RoundLoopEntered == Len(ssh_conns) = NO_OF_MICROVMS

\* The directions in which a connection was opened for instance k in round r.
DirectionsRun(k, r) == {d \in Directions : opened[k][r][d] > 0}

\* Some echo check or PATCH failed: it raised, or the PATCH was rejected.
AnyCheckFailed ==
    \/ raised # {}
    \/ \E k \in Instances, r \in Rounds : patch[k][r] = "rejected"

\* C1: once the round loop was entered, the run ends with the log of every
\* instance printed and kill() called on every instance.
C1_CleanupReachesEveryInstance ==
    (pc = "done" /\ RoundLoopEntered)
        => \A k \in Instances : logged[k] >= 1 /\ killed[k] >= 1

C3_CleanupAfterSetupFailure ==
    (pc = "done" /\ ~RoundLoopEntered)
        => \A k \in Instances : k < Len(ssh_conns)
              => logged[k] >= 1 /\ killed[k] >= 1

\* C4: a step of the cleanup phase that raises does not prevent kill() from
\* being called on the remaining instances.
C4_CleanupFailureDoesNotSkipKills ==
    pc = "done" =>
        \A e \in cleanup_errors : \A k \in Instances :
            (e.step # "kill" \/ k > e.inst) => killed[k] >= 1

\* C5: kill() is never called twice on an instance, never before the round
\* loop has finished or aborted, and in every run that entered the round loop
\* each instance ends up killed exactly once.
C5_KilledExactlyOnce ==
    /\ \A k \in Instances : killed[k] <= 1
    /\ \A k \in Instances : killed[k] > 0 => pc \in {"kill", "end", "done"}
    /\ (pc = "done" /\ RoundLoopEntered) => \A k \in Instances : killed[k] = 1

\* C6: if any echo check or PATCH failed, the run does not end in a passing
\* outcome.
C6_FailureFailsTheRun ==
    (pc = "done" /\ AnyCheckFailed) => outcome = "failed"

\* C7: a PATCH of instance k in round r is issued only after the echo check
\* of k in round r has completed or failed, and while an echo check of (i, j)
\* is pending or in progress the PATCH of (i, j) has not been issued.
C7_PatchAfterEcho ==
    /\ \A k \in Instances, r \in Rounds :
          patch[k][r] # "none" => echo[k][r] \in {"ok", "fail"}
    /\ pc \in {"echo", "connect", "transfer"} => patch[i][j] = "none"
    /\ pc = "patch" => echo[i][j] \in {"ok", "fail"}

\* C7 witness: the PATCH of the last instance was issued after its echo check
\* returned.
C7_Witness ==
    \E r \in Rounds :
        /\ patch[NO_OF_MICROVMS - 1][r] # "none"
        /\ echo[NO_OF_MICROVMS - 1][r] = "ok"

\* C8 as stated: before the PATCH of an instance is issued, its echo check
\* was run in both directions.
C8_BothDirectionsBeforePatch ==
    \A k \in Instances, r \in Rounds :
        patch[k][r] # "none" => DirectionsRun(k, r) = Directions

\* C8 amended: before the PATCH of an instance is issued, its echo check was
\* run in the guest-initiated direction only; the host-initiated direction is
\* never run.
C8_GuestDirectionBeforePatch ==
    /\ \A k \in Instances, r \in Rounds :
          patch[k][r] # "none" => DirectionsRun(k, r) = {"guest"}
    /\ \A k \in Instances, r \in Rounds : opened[k][r]["host"] = 0

\* C8 witness: a PATCH was issued for an instance whose echo check of the
\* round opened a guest-initiated connection and no host-initiated one.
C8_Witness ==
    \E k \in Instances, r \in Rounds :
        /\ patch[k][r] # "none"
        /\ opened[k][r]["guest"] = 1
        /\ opened[k][r]["host"] = 0

C16_LogsThenCloseThenKill ==
    /\ close_calls <= 1
    /\ close_calls > 0 => \A k \in Instances : logged[k] = 1
    /\ \A k \in Instances : killed[k] > 0 =>
          /\ close_calls = 1
          /\ \A m \in Instances : logged[m] = 1
    /\ pc = "kill" => close_calls = 1
    /\ pc = "log" => (close_calls = 0 /\ \A k \in Instances : killed[k] = 0)

\* C16 witness: the first kill() was called, with every log printed and the
\* guest connections closed.
C16_Witness ==
    /\ pc = "kill"
    /\ killed[0] = 1
    /\ close_calls = 1
    /\ \A k \in Instances : logged[k] = 1

\* C19: in round r no PATCH is issued before the echo checks of all instances
\* in round r have completed; nothing of round r+1 starts before the PATCH of
\* every instance in round r has completed; and nothing is done to any
\* instance before all instances are configured and started.
C19_FleetWideBarrier ==
    /\ \A k \in Instances, r \in Rounds :
          patch[k][r] # "none" => \A m \in Instances : echo[m][r] = "ok"
    /\ pc = "patch" => \A m \in Instances : echo[m][j] = "ok"
    /\ \A k \in Instances, r \in Rounds :
          (r > 0 /\ (echo[k][r] # "none" \/ patch[k][r] # "none"
                      \/ \E d \in Directions : opened[k][r][d] > 0))
             => \A m \in Instances : patch[m][r - 1] \in {"ok", "rejected"}
    /\ (pc \in {"echo", "connect", "transfer", "patch"} /\ j > 0)
          => \A m \in Instances : patch[m][j - 1] \in {"ok", "rejected"}
    /\ (\/ pc \in {"echo", "connect", "transfer", "patch"}
        \/ \E k \in Instances, r \in Rounds :
              echo[k][r] # "none" \/ patch[k][r] # "none")
          => (RoundLoopEntered /\ \A m \in Instances : started[m])

\* C19 witness: an echo check of the second round has completed, after every
\* instance got its echo check and its PATCH in the first round.
C19_Witness ==
    /\ echo[0][1] = "ok"
    /\ \A m \in Instances : echo[m][0] = "ok" /\ patch[m][0] \in {"ok", "rejected"}

\* Depth of the key paths looked at.
MaxDepth == 3
RECURSIVE PathsOfLen(_)
PathsOfLen(n) ==
    IF n = 0 THEN {<<>>}
    ELSE {<<k>> \o q : k \in Keys, q \in PathsOfLen(n - 1)}
Paths == UNION {PathsOfLen(n) : n \in 1 .. MaxDepth}

Absent == [tag |-> "absent"]
RECURSIVE Get(_, _)
\* get(path): the subtree of t at key path q, Absent if a segment is missing.
Get(t, q) ==
    IF q = <<>> THEN t
    ELSE IF t.tag = "m" /\ Head(q) \in DOMAIN t.kv
            THEN Get(t.kv[Head(q)], Tail(q))
            ELSE Absent

\* The key paths of t that lead to a scalar.
Leaves(t) == {q \in Paths : Get(t, q).tag = "s"}
IsPrefix(a, b) == Len(a) <= Len(b) /\ SubSeq(b, 1, Len(a)) = a
\* Patch p says something about path q: a key path of p leads to q, or
\* through q.
Touches(p, q) == \E l \in Leaves(p) : IsPrefix(l, q) \/ IsPrefix(q, l)

\* The store a request would produce if it were accepted.
WouldBe ==
    IF mreq.op = "put" THEN mreq.payload ELSE Merge(mprev, mreq.payload)

\* C12: a put or patch whose resulting serialized store exceeds the size
\* limit of 51200 bytes fails with PayloadTooLarge and leaves the store as it
\* was before the call.
C12_OversizedWriteRejected ==
    (mreq.op \in {"put", "patch"} /\ Size(WouldBe) > 51200)
        => (mresp = "PayloadTooLarge" /\ ms = mprev)

\* C12 witness: a patch whose payload fits the limit but whose merged result
\* does not was rejected, and the non-empty store is as before.
C12_Witness ==
    /\ mreq.op = "patch"
    /\ Size(mreq.payload) <= 51200
    /\ Size(Merge(mprev, mreq.payload)) > 51200
    /\ mresp = "PayloadTooLarge"
    /\ ms = mprev
    /\ ms # EmptyStore

\* C13: after an accepted patch P of store S, every key path of P has the
\* value P gives it, every key path of S that P says nothing about has the
\* value it had, and there is no other key path; the PATCH of _patch_mmds
\* applied to the seeded store, or applied again to its own result, leaves
\* ami-id = smth and the secret_key entry and nothing else.
C13_MergeLaw ==
    (mreq.op = "patch" /\ mresp = "ok") =>
        /\ \A q \in Leaves(mreq.payload) : Get(ms, q) = Get(mreq.payload, q)
        /\ \A q \in Leaves(mprev) :
              ~Touches(mreq.payload, q) => Get(ms, q) = Get(mprev, q)
        /\ Leaves(ms) \subseteq Leaves(mreq.payload) \cup Leaves(mprev)
        /\ (mreq.payload = PatchJson /\ mprev \in {SeedJson, ExpectedStore})
              => /\ ms = ExpectedStore
                 /\ Get(ms, <<"latest", "meta-data", "ami-id">>) = Scalar("smth")
                 /\ Get(ms, <<"latest", "meta-data", "secret_key">>) = Scalar("aux")

\* C13 witness: the PATCH of _patch_mmds was applied a second time, to the
\* store the first one left, and the store did not change.
C13_Witness ==
    /\ mreq.op = "patch"
    /\ mreq.payload = PatchJson
    /\ mresp = "ok"
    /\ mprev = ExpectedStore
    /\ ms = ExpectedStore

\* C17: an instance is started only when every step of _configure_and_run
\* before start() has succeeded, in the order of the source: log capture,
\* machine config, network, vsock, MMDS config, seed of the store, five drives.
C17_StartOnlyAfterConfigured ==
    [][\A k \in Instances : (started'[k] /\ ~started[k]) => cfg = ConfigSteps]_vars

\* C18: a PUT or PATCH addressed to instance i changes the store of no other
\* instance: a store changes only in the seed PUT or the PATCH of its own
\* instance.
C18_StoreFrame ==
    [][\A k \in Instances : store'[k] # store[k]
          => (k = i /\ pc \in {"setup", "patch"})]_vars

\* C18 witness: in the PATCH loop, instance 0 has its store patched while the
\* stores of the other instances are still as seeded.
C18_Witness ==
    /\ pc = "patch"
    /\ i = 1
    /\ store[0] = ExpectedStore
    /\ \A k \in Instances \ {0} : store[k] = SeedJson

\* The response differs from the blob in exactly one byte.
SingleByteDiff(r, b) ==
    /\ Len(r) = Len(b)
    /\ Cardinality({n \in 1 .. Len(b) : r[n] # b[n]}) = 1

\* C11: the echo check succeeds only if the bytes that came back hash to the
\* hash committed when the blob was generated; an unmodified echo succeeds,
\* with an identical hash; a response that differs from the blob in one byte
\* or in length is an integrity failure.
C11_EchoIntegrity ==
    epc = "checked" =>
        /\ verdict = "ok" => Hash(resp) = blob_hash
        /\ resp = blob => (verdict = "ok" /\ Hash(resp) = blob_hash)
        /\ (SingleByteDiff(resp, blob) \/ Len(resp) # Len(blob))
              => verdict = "IntegrityError"

\* C11 witness: a response that differs from a two-byte blob in its last byte
\* was reported as an integrity failure.
C11_Witness ==
    /\ epc = "checked"
    /\ Len(blob) = 2
    /\ SingleByteDiff(resp, blob)
    /\ resp[2] # blob[2]
    /\ verdict = "IntegrityError"

\* C14: request_token(ttl) fails with InvalidTTL for every ttl outside
\* [1, 21600], leaving the client without a token, and for every ttl inside
\* it issues a token with exactly that lifetime (no clamping).
C14_TtlRange ==
    treq.op = "request_token" =>
        /\ (treq.ttl < 1 \/ treq.ttl > 21600)
              => (tresp = "InvalidTTL" /\ tstate = "Unauthenticated")
        /\ (treq.ttl >= 1 /\ treq.ttl <= 21600)
              => (tresp = "token" /\ tttl = treq.ttl /\ tissued = treq.at)

\* C14 witness: a lifetime of 21601 seconds, one more than the maximum, was
\* refused with InvalidTTL and the client is still Unauthenticated.
C14_Witness ==
    /\ treq.op = "request_token"
    /\ treq.ttl = 21601
    /\ tresp = "InvalidTTL"
    /\ tstate = "Unauthenticated"

\* C15: a protected operation made with a token of lifetime t is served while
\* less than t seconds have passed since issuance and fails with TokenExpired
\* from then on; without a token it is not served; so after expiry nothing
\* is served until the client, Unauthenticated again, obtains a new token.
C15_TokenExpiry ==
    /\ treq.op \in ProtectedOps =>
          /\ (treq.state = "Authenticated" /\ treq.at - treq.issued < treq.token_ttl)
                => tresp = "ok"
          /\ (treq.state = "Authenticated" /\ treq.at - treq.issued >= treq.token_ttl)
                => tresp = "TokenExpired"
          /\ treq.state = "Unauthenticated" => tresp \notin {"ok", "TokenExpired"}
    /\ tstate = "Authenticated" => (tttl >= 1 /\ tttl <= 21600 /\ tissued <= now)

\* C15 witness: a token with a lifetime of 1 second, a wait of 2 seconds, and
\* the put fails with TokenExpired.
C15_Witness ==
    /\ treq.op = "put"
    /\ treq.state = "Authenticated"
    /\ treq.token_ttl = 1
    /\ treq.at - treq.issued = 2
    /\ tresp = "TokenExpired"
====
